---- MODULE Spec2Model ----
(***************************************************************************)
(* A model of LRUCache (src/src/cache.rs): a HashMap from keys to          *)
(* reference-counted CacheValue nodes, an intrusive doubly linked list of  *)
(* the same nodes (lru_list), a Mutex around both, and a fixed capacity.   *)
(*                                                                         *)
(* Spec      : one caller, every get/put is one step (the whole method).   *)
(* SpecSteps : several threads, get/put split at each lock acquisition and *)
(*             release, as the code takes and drops the mutex.             *)
(***************************************************************************)
EXTENDS Integers, Sequences, FiniteSets, TLC

\* ---------------------------------------------------------------- bounds
MaxCapacity == 2
MaxKey == 3
MaxVal == 3
NThreads == 2

Keys == 1..MaxKey
Values == 1..MaxVal
Capacities == 0..MaxCapacity
Threads == 1..NThreads
\* addresses an Rc allocation can get: one per key plus the node put() builds
\* before it frees anything
NodeIds == 1..(MaxKey + 1)

VARIABLES
    capacity,   \* LRUCache.capacity
    map,        \* LRUCacheData.map: key -> address of its CacheValue
    lru_list,   \* LRUCacheData.lru_list: addresses, front first
    heap,       \* the live Rc<CacheValue> allocations: address -> [key, value]
    panicked,   \* NoPanic, or the message of the panic that ended the caller
    lock,       \* holder of LRUCache.data's mutex, 0 when free
    pc,         \* per thread: where it is inside get/put
    local,      \* per thread: the arguments and the cache_value of its call
    last,       \* the last completed call: what it was and what it returned
    recency,    \* live keys by last touch (put, or get that hit), latest first
    pending,    \* per key: keys live at its last get hit, not touched or evicted since
    tracking,   \* whether pending is kept (SpecPending) or left empty
    net,        \* puts of a key that was not in the cache, minus evictions
    latest,     \* per key: Some(value of its last put), None if never put or evicted since
    history     \* the calls since new(), while they follow a scenario of spec section 8

vars == <<capacity, map, lru_list, heap, panicked, lock, pc, local,
          last, recency, pending, tracking, net, latest, history>>

\* ---------------------------------------------------------------- values
None == <<>>
Some(v) == <<v>>

NoPanic == ""
UB == "undefined behaviour"

Range(f) == {f[x] : x \in DOMAIN f}
Remove(l, x) == SelectSeq(l, LAMBDA y : y # x)
Without(f, x) == [y \in DOMAIN f \ {x} |-> f[y]]
With(f, x, v) == [y \in DOMAIN f \cup {x} |-> IF y = x THEN v ELSE f[y]]
EmptyMap == [y \in {} |-> 0]

\* the cache as one value, for the methods below
Self == [capacity |-> capacity, map |-> map, lru_list |-> lru_list, heap |-> heap]

Ok(s, ret) == [s |-> s, ret |-> ret, panic |-> NoPanic]
Panic(s, msg) == [s |-> s, ret |-> None, panic |-> msg]

\* ---------------------------------------------------------------- Rc
\* Rc::new: a fresh allocation; the lowest free address stands for any
Rc_new(s, key, value) ==
    LET free == NodeIds \ DOMAIN s.heap
        id == CHOOSE i \in free : \A j \in free : i <= j
    IN [s |-> [s EXCEPT !.heap = With(s.heap, id, [key |-> key, value |-> value])],
        id |-> id]

\* dropping an Rc: the CacheValue is freed when neither the map nor the
\* list owns it any more
Rc_drop(s, id) ==
    IF id \in Range(s.map) \cup Range(s.lru_list)
    THEN s
    ELSE [s EXCEPT !.heap = Without(s.heap, id)]

\* ---------------------------------------------------------------- LinkedList
\* push_front as it would be if it linked the node at the other end
push_back(l, id) == l \o <<id>>

push_front(l, id) == <<id>> \o l
Linked(l, id) == \E i \in 1..Len(l) : l[i] = id

\* ---------------------------------------------------------------- LRUCache
new(cap) == [capacity |-> cap, map |-> EmptyMap, lru_list |-> <<>>, heap |-> EmptyMap]

contains_key(s, key) == key \in DOMAIN s.map

\* touch as it would be if it left the node where it is
touch_stays(s, id) ==
    IF Linked(s.lru_list, id) THEN Ok(s, None) ELSE Panic(s, UB)

\* touch: the node is taken out of lru_list where it is and pushed at the
\* front. cursor_mut_from_ptr on a node that is not linked is undefined.
touch(s, id) ==
    IF Linked(s.lru_list, id)
    THEN Ok([s EXCEPT !.lru_list = push_front(Remove(s.lru_list, id), id)], None)
    ELSE Panic(s, UB)

\* get as it would be if a miss were taken for a reason to make room
get_evicting(s, key) ==
    IF ~contains_key(s, key)
    THEN IF s.lru_list = <<>>
         THEN Ok(s, None)
         ELSE LET id == Head(s.lru_list)
                  k == s.heap[id].key
              IN Ok(Rc_drop([s EXCEPT !.lru_list = Tail(s.lru_list),
                                      !.map = Without(s.map, k)], id), None)
    ELSE LET id == s.map[key]
             t == touch(s, id)
         IN IF t.panic # NoPanic THEN t ELSE Ok(t.s, Some(s.heap[id].value))

get(s, key) ==
    IF ~contains_key(s, key)
    THEN Ok(s, None)
    ELSE LET id == s.map[key]
             t == touch(s, id)
         IN IF t.panic # NoPanic THEN t ELSE Ok(t.s, Some(s.heap[id].value))

\* evict_lru as it would be if the popped node's key stayed in the map
evict_lru_keeps_key(s) ==
    IF s.lru_list = <<>>
    THEN Panic(s, "List must not be none")
    ELSE Ok([s EXCEPT !.lru_list = Tail(s.lru_list)], None)

\* evict_lru: pop_front of lru_list, then the popped node's key leaves the map
evict_lru(s) ==
    IF s.lru_list = <<>>
    THEN Panic(s, "List must not be none")
    ELSE LET id == Head(s.lru_list)
             key == s.heap[id].key
             popped == [s EXCEPT !.lru_list = Tail(s.lru_list)]
         IN IF key \notin DOMAIN s.map
            THEN Panic(Rc_drop(popped, id), "unreachable")
            ELSE LET owner == s.map[key]
                     removed == [popped EXCEPT !.map = Without(s.map, key)]
                 IN Ok(Rc_drop(Rc_drop(removed, owner), id), None)

\* the capacity test as it would be if it fired one entry late
is_full_late(s) == Cardinality(DOMAIN s.map) > s.capacity

is_full(s) == Cardinality(DOMAIN s.map) = s.capacity

make_room(s) == IF is_full(s) THEN evict_lru(s) ELSE Ok(s, None)

\* the insertion as it would be if a key already present kept its old node
put_insert_if_absent(s, key, id) ==
    IF ~contains_key(s, key)
    THEN Ok([s EXCEPT !.map = With(s.map, key, id),
                      !.lru_list = push_front(s.lru_list, id)], None)
    ELSE LET t == touch(Rc_drop(s, id), s.map[key])
         IN IF t.panic # NoPanic THEN t
            ELSE Ok(t.s, Some(s.heap[s.map[key]].value))

\* the insertion as it would be if the replaced node stayed linked
put_insert_keeps_old_node(s, key, id) ==
    Ok([s EXCEPT !.map = With(s.map, key, id),
                 !.lru_list = push_front(s.lru_list, id)],
       IF contains_key(s, key) THEN Some(s.heap[s.map[key]].value) ELSE None)

\* put, lines 140-175: map.insert, unlink the node it replaced, push_front
put_insert(s, key, id) ==
    LET inserted == [s EXCEPT !.map = With(s.map, key, id)]
    IN IF ~contains_key(s, key)
       THEN Ok([inserted EXCEPT !.lru_list = push_front(s.lru_list, id)], None)
       ELSE LET old == s.map[key]
                unlinked == [inserted EXCEPT !.lru_list = Remove(s.lru_list, old)]
            IN IF ~Linked(s.lru_list, old)
               THEN Panic(Rc_drop(inserted, id), UB)
               ELSE IF old \in Range(inserted.map)
               THEN Panic(Rc_drop(unlinked, id), "Expected one owner for rc")
               ELSE Ok([Rc_drop(unlinked, old) EXCEPT
                            !.lru_list = push_front(unlinked.lru_list, id)],
                       Some(s.heap[old].value))

\* put as it would be if it made room without asking whether the key is new
put_always_makes_room(s, key, value) ==
    LET a == Rc_new(s, key, value)
        room == make_room(a.s)
    IN IF room.panic # NoPanic
       THEN Panic(Rc_drop(room.s, a.id), room.panic)
       ELSE put_insert(room.s, key, a.id)

put(s, key, value) ==
    LET a == Rc_new(s, key, value)
        room == IF ~contains_key(a.s, key) THEN make_room(a.s) ELSE Ok(a.s, None)
    IN IF room.panic # NoPanic
       THEN Panic(Rc_drop(room.s, a.id), room.panic)
       ELSE put_insert(room.s, key, a.id)

\* ---------------------------------------------------------------- bookkeeping
Entry(op, key, value, ret, evicted, size) ==
    [op |-> op, key |-> key, value |-> value, ret |-> ret,
     evicted |-> evicted, size |-> size]

NoCall == Entry("new", 0, 0, None, {}, 0)
OffScript == <<Entry("off", 0, 0, None, {}, 0)>>

Call(e) == <<e.op, e.key, e.value>>

\* Scenario B of spec section 8, on a cache of capacity 2
ScenarioB ==
    << <<"put", 1, 1>>, <<"put", 2, 2>>, <<"get", 1, 0>>, <<"put", 3, 3>>,
       <<"get", 2, 0>>, <<"get", 1, 0>>, <<"get", 3, 0>> >>

FollowsB(h) ==
    /\ capacity = 2
    /\ Len(h) <= Len(ScenarioB)
    /\ \A i \in 1..Len(h) : Call(h[i]) = ScenarioB[i]

\* Scenario A of spec section 8, on a cache of capacity 1, for any two
\* different keys: put first, put second, get first, get second
FollowsA(h) ==
    /\ capacity = 1
    /\ Len(h) <= 4
    /\ Len(h) >= 1 => h[1].op = "put"
    /\ Len(h) >= 2 => h[2].op = "put" /\ h[2].key # h[1].key
    /\ Len(h) >= 3 => h[3].op = "get" /\ h[3].key = h[1].key
    /\ Len(h) >= 4 => h[4].op = "get" /\ h[4].key = h[2].key

Follow(h, e) ==
    IF h # OffScript /\ (FollowsA(Append(h, e)) \/ FollowsB(Append(h, e)))
    THEN Append(h, e)
    ELSE OffScript

\* what a call that returned leaves in the bookkeeping; s is the cache after it
Returned(op, key, value, ret, s) ==
    LET live == DOMAIN s.map
        evicted == DOMAIN map \ live
        hit == op = "put" \/ ret # None
        touched == IF hit THEN {key} ELSE {}
        e == Entry(op, key, value, ret, evicted, Cardinality(live))
    IN /\ last' = e
       /\ recency' = SelectSeq(IF hit THEN <<key>> \o Remove(recency, key) ELSE recency,
                               LAMBDA k : k \in live)
       /\ pending' = [k \in Keys |->
                         IF ~tracking \/ k \notin live THEN {}
                         ELSE IF op = "get" /\ hit /\ k = key THEN live \ {k}
                         ELSE pending[k] \ (touched \cup evicted)]
       /\ net' = net + (IF op = "put" /\ key \notin DOMAIN map THEN 1 ELSE 0)
                     - Cardinality(evicted)
       /\ latest' = [k \in Keys |->
                        IF op = "put" /\ k = key THEN Some(value)
                        ELSE IF k \in evicted THEN None
                        ELSE latest[k]]
       /\ history' = Follow(history, e)

\* An address is only ever used to reach its node, so the addresses are kept
\* up to renaming: the nodes of lru_list are numbered by their place in it,
\* the others after them.
Place(s, id) ==
    IF Linked(s.lru_list, id)
    THEN CHOOSE n \in 1..Len(s.lru_list) : s.lru_list[n] = id
    ELSE Len(s.lru_list) + id

Renamed(s, id) ==
    IF id \in DOMAIN s.heap
    THEN Cardinality({j \in DOMAIN s.heap : Place(s, j) < Place(s, id)}) + 1
    ELSE id

Store(s, loc) ==
    /\ map' = [k \in DOMAIN s.map |-> Renamed(s, s.map[k])]
    /\ lru_list' = [n \in 1..Len(s.lru_list) |-> Renamed(s, s.lru_list[n])]
    /\ heap' = [j \in {Renamed(s, i) : i \in DOMAIN s.heap} |->
                   s.heap[CHOOSE i \in DOMAIN s.heap : Renamed(s, i) = j]]
    /\ local' = [t \in Threads |-> [loc[t] EXCEPT !.id = Renamed(s, loc[t].id)]]

Idle == [key |-> 0, value |-> 0, id |-> 0]

Fresh ==
    /\ capacity \in Capacities
    /\ map = new(capacity).map
    /\ lru_list = new(capacity).lru_list
    /\ heap = new(capacity).heap
    /\ panicked = NoPanic
    /\ lock = 0
    /\ pc = [t \in Threads |-> "idle"]
    /\ local = [t \in Threads |-> Idle]
    /\ last = NoCall
    /\ recency = <<>>
    /\ pending = [k \in Keys |-> {}]
    /\ net = 0
    /\ latest = [k \in Keys |-> None]
    /\ history = <<>>

Init == Fresh /\ tracking = FALSE

Bookkeeping == <<last, recency, pending, net, latest, history>>

\* ---------------------------------------------------------------- one caller
Quiescent == lock = 0 /\ \A t \in Threads : pc[t] = "idle"

Get(key) ==
    /\ panicked = NoPanic
    /\ Quiescent
    /\ \E r \in {get(Self, key)} :
          /\ Store(r.s, local)
          /\ panicked' = r.panic
          /\ IF r.panic = NoPanic
             THEN Returned("get", key, 0, r.ret, r.s)
             ELSE UNCHANGED Bookkeeping
    /\ UNCHANGED <<capacity, lock, pc, tracking>>

Put(key, value) ==
    /\ panicked = NoPanic
    /\ Quiescent
    /\ \E r \in {put(Self, key, value)} :
          /\ Store(r.s, local)
          /\ panicked' = r.panic
          /\ IF r.panic = NoPanic
             THEN Returned("put", key, value, r.ret, r.s)
             ELSE UNCHANGED Bookkeeping
    /\ UNCHANGED <<capacity, lock, pc, tracking>>

Next ==
    \/ \E key \in Keys : Get(key)
    \/ \E key \in Keys, value \in Values : Put(key, value)

Spec == Init /\ [][Next]_vars

\* the same calls, with pending kept
InitPending == Fresh /\ tracking = TRUE

SpecPending == InitPending /\ [][Next]_vars

\* ---------------------------------------------------------------- threads
\* get(&self) and put(&mut self) split where the code takes and drops the
\* mutex. put borrows the cache exclusively: it starts only when no other
\* call is in flight, and no call starts while it runs.
InPut == {"put_lock", "put_check", "make_room_lock", "make_room_check",
          "evict_lru", "put_insert"}

Goto(t, label) == pc' = [pc EXCEPT ![t] = label]

\* line 109: get is entered
GetCall(t, key) ==
    /\ panicked = NoPanic
    /\ pc[t] = "idle"
    /\ \A u \in Threads : pc[u] \notin InPut
    /\ Goto(t, "get_lock")
    /\ local' = [local EXCEPT ![t] = [key |-> key, value |-> 0, id |-> 0]]
    /\ UNCHANGED <<capacity, map, lru_list, heap, panicked, lock, tracking>>
    /\ UNCHANGED Bookkeeping

\* line 110: self.data.lock()
GetLock(t) ==
    /\ panicked = NoPanic
    /\ pc[t] = "get_lock"
    /\ lock = 0
    /\ lock' = t
    /\ Goto(t, "get_locked")
    /\ UNCHANGED <<capacity, map, lru_list, heap, panicked, local, tracking>>
    /\ UNCHANGED Bookkeeping

\* lines 111-118: lookup, touch, clone; the guard is dropped on return
GetReturn(t) ==
    /\ panicked = NoPanic
    /\ pc[t] = "get_locked"
    /\ \E r \in {get(Self, local[t].key)} :
          /\ Store(r.s, [local EXCEPT ![t] = Idle])
          /\ panicked' = r.panic
    /\ lock' = 0
    /\ Goto(t, "idle")
    /\ UNCHANGED <<capacity, tracking>>
    /\ UNCHANGED Bookkeeping

\* lines 125-126: put is entered and builds its CacheValue
PutCall(t, key, value) ==
    /\ panicked = NoPanic
    /\ \A u \in Threads : pc[u] = "idle"
    /\ \E a \in {Rc_new(Self, key, value)} :
          Store(a.s, [local EXCEPT ![t] = [key |-> key, value |-> value, id |-> a.id]])
    /\ Goto(t, "put_lock")
    /\ UNCHANGED <<capacity, panicked, lock, tracking>>
    /\ UNCHANGED Bookkeeping

\* line 133: self.data.lock()
PutLock(t) ==
    /\ panicked = NoPanic
    /\ pc[t] = "put_lock"
    /\ lock = 0
    /\ lock' = t
    /\ Goto(t, "put_check")
    /\ UNCHANGED <<capacity, map, lru_list, heap, panicked, local, tracking>>
    /\ UNCHANGED Bookkeeping

\* lines 134-138: contains_key; the guard is dropped on either branch
PutCheck(t) ==
    /\ panicked = NoPanic
    /\ pc[t] = "put_check"
    /\ lock' = 0
    /\ IF ~contains_key(Self, local[t].key)
       THEN Goto(t, "make_room_lock")
       ELSE Goto(t, "put_insert")
    /\ UNCHANGED <<capacity, map, lru_list, heap, panicked, local, tracking>>
    /\ UNCHANGED Bookkeeping

\* line 203: make_room locks again
MakeRoomLock(t) ==
    /\ panicked = NoPanic
    /\ pc[t] = "make_room_lock"
    /\ lock = 0
    /\ lock' = t
    /\ Goto(t, "make_room_check")
    /\ UNCHANGED <<capacity, map, lru_list, heap, panicked, local, tracking>>
    /\ UNCHANGED Bookkeeping

\* lines 204-208: the len() == capacity test; the guard is dropped on either branch
MakeRoomCheck(t) ==
    /\ panicked = NoPanic
    /\ pc[t] = "make_room_check"
    /\ lock' = 0
    /\ IF is_full(Self)
       THEN Goto(t, "evict_lru")
       ELSE Goto(t, "put_insert")
    /\ UNCHANGED <<capacity, map, lru_list, heap, panicked, local, tracking>>
    /\ UNCHANGED Bookkeeping

\* lines 211-217: evict_lru, through get_mut(), without the lock
EvictLru(t) ==
    /\ panicked = NoPanic
    /\ pc[t] = "evict_lru"
    /\ \E r \in {evict_lru(Self)} :
          /\ panicked' = r.panic
          /\ IF r.panic = NoPanic
             THEN Store(r.s, local) /\ Goto(t, "put_insert")
             ELSE /\ Store(Rc_drop(r.s, local[t].id), [local EXCEPT ![t] = Idle])
                  /\ Goto(t, "idle")
    /\ UNCHANGED <<capacity, lock, tracking>>
    /\ UNCHANGED Bookkeeping

\* lines 140-175: insert, through get_mut(), without the lock; put returns
PutReturn(t) ==
    /\ panicked = NoPanic
    /\ pc[t] = "put_insert"
    /\ \E r \in {put_insert(Self, local[t].key, local[t].id)} :
          /\ Store(r.s, [local EXCEPT ![t] = Idle])
          /\ panicked' = r.panic
    /\ Goto(t, "idle")
    /\ UNCHANGED <<capacity, lock, tracking>>
    /\ UNCHANGED Bookkeeping

NextSteps ==
    \E t \in Threads :
        \/ \E key \in Keys : GetCall(t, key)
        \/ GetLock(t)
        \/ GetReturn(t)
        \/ \E key \in Keys, value \in Values : PutCall(t, key, value)
        \/ PutLock(t)
        \/ PutCheck(t)
        \/ MakeRoomLock(t)
        \/ MakeRoomCheck(t)
        \/ EvictLru(t)
        \/ PutReturn(t)

SpecSteps == Init /\ [][NextSteps]_vars

\* a thread that is running keeps running; a thread waiting in lock() gets
\* the mutex if it is free again and again (a fair mutex)
Runs(t) ==
    GetReturn(t) \/ PutCheck(t) \/ MakeRoomCheck(t) \/ EvictLru(t) \/ PutReturn(t)

Acquires(t) == GetLock(t) \/ PutLock(t) \/ MakeRoomLock(t)

Fairness == \A t \in Threads : WF_vars(Runs(t)) /\ SF_vars(Acquires(t))

SpecStepsFair == SpecSteps /\ Fairness

\* ---------------------------------------------------------------- any data
\* get and put applied once to any LRUCacheData value, in sync or not: the
\* map and the list each hold any keys, in any order; node i holds key i.
Orders ==
    {l \in UNION {[1..n -> Keys] : n \in 0..MaxKey} :
        \A i, j \in DOMAIN l : l[i] = l[j] => i = j}

AnyData ==
    /\ capacity \in Capacities
    /\ \E K \in SUBSET Keys, l \in Orders :
          /\ map = [k \in K |-> k]
          /\ lru_list = l
          /\ heap = [i \in K \cup Range(l) |-> [key |-> i, value |-> 1]]
    /\ panicked = NoPanic
    /\ lock = 0
    /\ pc = [t \in Threads |-> "idle"]
    /\ local = [t \in Threads |-> Idle]
    /\ last = NoCall
    /\ recency = <<>>
    /\ pending = [k \in Keys |-> {}]
    /\ net = 0
    /\ latest = [k \in Keys |-> None]
    /\ history = <<>>
    /\ tracking = FALSE

\* cursor_mut_from_ptr on a node that is not linked is undefined (lines
\* 182-185): the build may stop there, which get and put above model, or go
\* on as if remove() had unlinked the node, which these two model.
get_unlinked(s, key) ==
    LET id == s.map[key]
    IN Ok([s EXCEPT !.lru_list = push_front(s.lru_list, id)], Some(s.heap[id].value))

put_unlinked(s, key, value) ==
    LET a == Rc_new(s, key, value)
        old == s.map[key]
        inserted == [a.s EXCEPT !.map = With(s.map, key, a.id),
                                !.lru_list = push_front(s.lru_list, a.id)]
    IN Ok(Rc_drop(inserted, old), Some(s.heap[old].value))

Untouched == last = NoCall /\ panicked = NoPanic

GetUndefined(key) ==
    /\ Quiescent
    /\ contains_key(Self, key)
    /\ ~Linked(lru_list, map[key])
    /\ \E r \in {get_unlinked(Self, key)} :
          /\ Store(r.s, local)
          /\ Returned("get", key, 0, r.ret, r.s)
    /\ UNCHANGED <<capacity, panicked, lock, pc, tracking>>

PutUndefined(key, value) ==
    /\ Quiescent
    /\ contains_key(Self, key)
    /\ ~Linked(lru_list, map[key])
    /\ \E r \in {put_unlinked(Self, key, value)} :
          /\ Store(r.s, local)
          /\ Returned("put", key, value, r.ret, r.s)
    /\ UNCHANGED <<capacity, panicked, lock, pc, tracking>>

NextAnyData ==
    \/ \E key \in Keys : Untouched /\ Get(key)
    \/ \E key \in Keys : Untouched /\ GetUndefined(key)
    \/ \E key \in Keys, value \in Values : Untouched /\ Put(key, value)
    \/ \E key \in Keys, value \in Values : Untouched /\ PutUndefined(key, value)

SpecAnyData == AnyData /\ [][NextAnyData]_vars

\* ---------------------------------------------------------------- properties
\* a call of `op` returned in this step
Called(op) == vars' # vars /\ panicked' = NoPanic /\ last'.op = op

Size == Cardinality(DOMAIN map)
ValueOf(key) == heap[map[key]].value
Front == heap[lru_list[1]].key

\* C1: a put of a key that is not in the cache, on a cache of capacity >= 1
\* holding exactly `capacity` entries, removes exactly the live key whose
\* last touch (put, or get that hit) is the oldest.
C1_EvictsLeastRecentlyTouched ==
    [][(/\ Called("put")
        /\ last'.key \notin DOMAIN map
        /\ capacity >= 1
        /\ Size = capacity)
       => DOMAIN map \ DOMAIN map' = {recency[Len(recency)]}]_vars

\* C2: when put(k, v) has returned, on any capacity >= 1 and whether k was
\* new or present, the get(k) called next returns Some(v).
C2_GetAfterPut ==
    (panicked = NoPanic /\ last.op = "put")
    => /\ get(Self, last.key).panic = NoPanic
       /\ get(Self, last.key).ret = Some(last.value)

C2_Witness ==
    /\ last.op = "put"
    /\ last.evicted # {}
    /\ capacity >= 2
    /\ get(Self, last.key).ret = Some(last.value)

\* C3: after every call the map holds at most `capacity` keys.
C3_SizeAtMostCapacity == Size <= capacity

C3_Witness ==
    /\ last.op = "put"
    /\ last.evicted # {}
    /\ Size = capacity
    /\ capacity = MaxCapacity

\* C4: put(k, v2) on a key present with v1 returns Some(v1), keeps the set
\* of live keys (so the size, with no eviction, also when full), stores v2
\* for k and leaves k at the front of lru_list.
C4_PutReplaces ==
    [][(Called("put") /\ last'.key \in DOMAIN map)
       => /\ last'.ret = Some(ValueOf(last'.key))
          /\ DOMAIN map' = DOMAIN map
          /\ Len(lru_list') = Len(lru_list)
          /\ heap'[map'[last'.key]].value = last'.value
          /\ Front' = last'.key]_vars

C4_Witness ==
    /\ last.op = "put"
    /\ last.ret # None
    /\ last.ret # Some(last.value)
    /\ Size = capacity
    /\ capacity >= 2
    /\ Front = last.key

\* C5: a key whose get hit is not evicted while some other entry that was
\* live at that get has been neither evicted nor touched since.
C5_GetProtects ==
    [][\A k \in DOMAIN map \ DOMAIN map' : pending[k] = {}]_vars

\* C6: with capacity 0 no put or get fails, and the cache stays empty.
C6_ZeroCapacity ==
    capacity = 0 => panicked = NoPanic /\ Size = 0 /\ lru_list = <<>>

\* C7: a get that misses returns None and leaves the keys, the values and
\* the recency order as they were.
C7_MissChangesNothing ==
    [][(panicked' = NoPanic /\ last'.op = "get" /\ last'.key \notin DOMAIN map)
       => /\ last'.ret = None
          /\ map' = map
          /\ lru_list' = lru_list
          /\ heap' = heap]_vars

C7_Witness ==
    /\ last.op = "get"
    /\ last.ret = None
    /\ last.key \notin DOMAIN map
    /\ Len(lru_list) >= 2

\* C8: Scenario B on capacity 2: put(1,1); put(2,2); get(1) returns Some(1);
\* put(3,3) evicts key 2; then get(2) is None, get(1) Some(1), get(3) Some(3).
C8_ScenarioB ==
    FollowsB(history)
    => /\ Len(history) >= 3 => history[3].ret = Some(1)
       /\ Len(history) >= 4 => history[4].evicted = {2}
       /\ Len(history) >= 5 => history[5].ret = None
       /\ Len(history) >= 6 => history[6].ret = Some(1)
       /\ Len(history) >= 7 => history[7].ret = Some(3)

\* C9: on capacity 1, a put of a first key and a put of a second key both
\* return None and leave the size at 1; then get of the first key returns
\* None and get of the second returns its value.
C9_ScenarioA ==
    FollowsA(history)
    => /\ Len(history) >= 1 => history[1].ret = None /\ history[1].size = 1
       /\ Len(history) >= 2 => history[2].ret = None /\ history[2].size = 1
       /\ Len(history) >= 3 => history[3].ret = None
       /\ Len(history) >= 4 => history[4].ret = Some(history[2].value)

C9_Witness == FollowsA(history) /\ Len(history) = 4

\* C10: a thread inside get or put, between its first test of the map and
\* its return, holds the mutex all the way.
C10_OneCriticalSection ==
    \A t \in Threads :
        pc[t] \in {"get_locked", "put_check", "make_room_lock", "make_room_check",
                   "evict_lru", "put_insert"}
        => lock = t

\* the keys of lru_list, front first
ListKeys == [n \in 1..Len(lru_list) |-> heap[lru_list[n]].key]

\* map and lru_list hold the same nodes, one per key
InSync ==
    /\ \A k \in DOMAIN map : Linked(lru_list, map[k]) /\ heap[map[k]].key = k
    /\ \A n \in 1..Len(lru_list) :
          /\ heap[lru_list[n]].key \in DOMAIN map
          /\ map[heap[lru_list[n]].key] = lru_list[n]
    /\ \A n, m \in 1..Len(lru_list) : ListKeys[n] = ListKeys[m] => n = m
    /\ Len(lru_list) = Size

\* C11: with several threads calling get and put, whenever no call is in
\* flight the map and lru_list hold the same keys, each once, no list node
\* lacks its key in the map, and the size is at most capacity.
C11_QuiescentInSync == Quiescent => InSync /\ Size <= capacity

C11_Witness ==
    /\ Quiescent
    /\ Size = capacity
    /\ capacity = MaxCapacity
    /\ ListKeys[1] = MaxKey

\* C12: for every capacity, no call ever reaches one of the failure points
\* of the code: every get and put returns normally.
C12_NoFailurePoint == panicked = NoPanic

Min(a, b) == IF a <= b THEN a ELSE b

\* C13: after each completed put, the size is the smaller of capacity and
\* (puts of new keys so far minus evictions so far), and at most capacity.
C13_SizeIsNetInsertions ==
    (panicked = NoPanic /\ last.op = "put")
    => Size = Min(capacity, net) /\ Size <= capacity

C13_Witness ==
    /\ last.op = "put"
    /\ last.evicted # {}
    /\ net = capacity
    /\ capacity >= 2

\* C14: after every completed call the map and lru_list are in bijection:
\* each key of the map has its one node in the list, each node of the list
\* carries a key that the map sends to that node, no key is twice in the
\* list, and both have the same number of entries.
C14_Bijection == Quiescent => InSync

C14_Witness ==
    /\ last.op = "put"
    /\ last.ret # None
    /\ Len(lru_list) = capacity
    /\ capacity >= 2
    /\ InSync

\* C15: after every completed call lru_list holds the live keys in the
\* order of their last touch, latest at the front, each once.
C15_ListInTouchOrder ==
    /\ ListKeys = recency
    /\ \A n, m \in 1..Len(lru_list) : lru_list[n] = lru_list[m] => n = m

C15_Witness ==
    /\ last.op = "get"
    /\ last.ret # None
    /\ Len(lru_list) >= 2
    /\ ListKeys = recency
    /\ ListKeys[1] = last.key

\* a put of a key that is not in the cache stops in evict_lru's expect:
\* make_room, and so evict_lru, is entered for absent keys only
PutNewPanics == panicked = NoPanic /\ panicked' = "List must not be none"

\* what a put of the absent key last'.key, which returned in this step, did
PutNewPost ==
    LET key == last'.key
        evicted == DOMAIN map \ DOMAIN map'
    IN /\ last'.ret = None
       /\ evicted # {} <=> Size = capacity
       /\ Cardinality(evicted) <= 1
       /\ key \notin evicted
       /\ key \in DOMAIN map'
       /\ heap'[map'[key]].value = last'.value
       /\ ListKeys'[1] = key
       /\ Size # capacity
          => /\ \A j \in DOMAIN map :
                   j \in DOMAIN map' /\ heap'[map'[j]].value = ValueOf(j)
             /\ ListKeys' = <<key>> \o ListKeys

C17_HitMovesToFront ==
    [][(Called("get") /\ last'.key \in DOMAIN map)
       => /\ last'.ret = Some(ValueOf(last'.key))
          /\ DOMAIN map' = DOMAIN map
          /\ \A j \in DOMAIN map : heap'[map'[j]].value = ValueOf(j)
          /\ ListKeys' = <<last'.key>> \o Remove(ListKeys, last'.key)]_vars

C17_Witness ==
    /\ FollowsB(history)
    /\ Len(history) = 3
    /\ last.ret = Some(1)
    /\ ListKeys = <<1, 2>>

\* C20: a get, and the previous value a put returns, is the value of the
\* key's most recent put, or None exactly when the key was never put or
\* was evicted after that put.
C20_NeverStale ==
    [][(Called("get") \/ Called("put")) => last'.ret = latest[last'.key]]_vars

C20_Witness ==
    /\ FollowsA(history)
    /\ Len(history) = 3
    /\ last.ret = None
    /\ latest[last.key] = None
    /\ latest[history[2].key] = Some(history[2].value)

\* no thread takes the mutex while it holds it, and a thread that is back
\* from its call does not hold it
LockDiscipline ==
    \A t \in Threads :
        /\ pc[t] \in {"get_lock", "put_lock", "make_room_lock"} => lock # t
        /\ pc[t] = "idle" => lock # t

\* C18: under a fair mutex every get or put that starts eventually
\* returns; no call locks the mutex while holding it, and the mutex is
\* released when the call ends.
C18_EveryCallReturns ==
    /\ []LockDiscipline
    /\ \A t \in Threads :
          (pc[t] # "idle") ~> (pc[t] = "idle" /\ panicked = NoPanic)

\* the call of `op` on `key` runs into a node the other collection lacks:
\* touch or the replace path on a key whose node is not linked, or evict_lru
\* on a front node whose key is not in the map (or on no node at all)
MeetsDesync(op, key) ==
    \/ key \in DOMAIN map /\ ~Linked(lru_list, map[key])
    \/ /\ op = "put"
       /\ key \notin DOMAIN map
       /\ Size = capacity
       /\ Size > 0
       /\ lru_list = <<>> \/ heap[lru_list[1]].key \notin DOMAIN map

====
